---------------------------- MODULE Spec2Model ----------------------------
(***************************************************************************)
(* A model of the defect-generation routines of src/src/defects.py:       *)
(* remove_molecule, central_molecule, remove_vertical, remove_horizontal  *)
(* and remove_vertical_cell.                                               *)
(*                                                                         *)
(* A snapshot is a record of two parallel per-particle arrays:             *)
(*   body  - the molecule id of each particle (snapshot.particles.body)    *)
(*   attrs - one value per particle standing for all the other attributes  *)
(*           the copy loop of remove_molecule carries over with the same   *)
(*           mask (position, velocity, mass, ...); each particle of the    *)
(*           input has its own value, so a particle can be followed.       *)
(* Arrays are 1-indexed sequences here, 0-indexed in the source.           *)
(***************************************************************************)
EXTENDS Integers, Sequences, FiniteSets

VARIABLES
    original,        \* the value the caller's snapshot had before any call
    input,           \* the caller's snapshot object, as it is now
    snapshot,        \* the local binding `snapshot` of the running function
    op,              \* the function the caller invoked
    pc,              \* "idle", a loop position, "returned" or "raised"
    num_mols,        \* argument num_mols / num_cells
    cell_dimensions, \* argument cell_dimensions = <<x, y>>
    cell_molecules,  \* argument cell_molecules
    center,          \* local `center`; the value central_molecule returned
    index,           \* local `index`
    count,           \* local `count` (remove_horizontal), `i` (remove_vertical_cell)
    column,          \* local `column` (remove_horizontal)
    raised,          \* the exception that ended the operation, or "none"
    result,          \* <<>> while nothing was returned, <<s>> once s was returned
    before,          \* the snapshot handed to the latest remove_molecule call
    calls            \* the indices handed to remove_molecule, in call order

vars == <<original, input, snapshot, op, pc, num_mols, cell_dimensions,
          cell_molecules, center, index, count, column, raised, result,
          before, calls>>

---------------------------------------------------------------------------
(* Bounds of the model.                                                    *)

MaxParticles == 4
MaxMolecules == 20
MaxChain == 2
MaxDim == 5
MaxCellMolecules == 2
MaxCount == 8

\* The particles of one molecule in the crystals built below: the molecule
\* the repository studies is a trimer.
TrimerSize == 3

---------------------------------------------------------------------------
(* Helpers over arrays.                                                    *)

Range(s) == {s[p] : p \in 1..Len(s)}

\* Python's max() over a non-empty array.
Max(s) == LET values == Range(s) IN CHOOSE v \in values : \A w \in values : w <= v

\* numpy boolean-mask indexing arr[mask]: the entries whose mask is TRUE, in order.
Select(arr, mask) ==
    LET pairs == [p \in 1..Len(arr) |-> <<arr[p], mask[p]>>]
        kept == SelectSeq(pairs, LAMBDA q : q[2])
    IN  [p \in 1..Len(kept) |-> kept[p][1]]

\* numpy's elementwise `arr != value`.
NotEqual(arr, value) == [p \in 1..Len(arr) |-> arr[p] # value]

\* int(np.sum(mask))
Sum(mask) == Cardinality({p \in 1..Len(mask) : mask[p]})

\* numpy's slice assignment target[:] = source of a target of length n: the
\* source must have the target's length, or length 1 (it is then broadcast to
\* every slot); anything else raises ValueError ("could not broadcast").
CanAssign(n, source) == Len(source) = n \/ Len(source) = 1

AssignAll(n, source) ==
    IF Len(source) = n THEN source ELSE [p \in 1..n |-> source[1]]


---------------------------------------------------------------------------
(* Snapshots.                                                              *)

MoleculeIds(s) == Range(s.body)

NumMolecules(s) == Cardinality(MoleculeIds(s))

Contiguous(s) == MoleculeIds(s) = 0..(NumMolecules(s) - 1)

\* A snapshot of N particles with the given molecule ids; particle p carries
\* the attribute value p.
MakeSnapshot(body) == [body |-> body, attrs |-> [p \in 1..Len(body) |-> p]]

\* Every snapshot of at most MaxParticles particles whose molecule ids are
\* contiguous: any ordering of the particles, any molecule sizes.
SmallSnapshots ==
    {s \in {MakeSnapshot(b) : b \in UNION {[1..n -> 0..(n - 1)] : n \in 0..MaxParticles}} :
        Contiguous(s)}

\* A crystal of M molecules of P particles each, stored molecule by molecule.
Crystal(M, P) == MakeSnapshot([p \in 1..(M * P) |-> (p - 1) \div P])

Crystals == {Crystal(M, TrimerSize) : M \in 0..MaxMolecules}

Snapshots == SmallSnapshots \cup Crystals

---------------------------------------------------------------------------
(* remove_molecule.                                                        *)

\* remove_molecule without its check of the index.
NoSuchMoleculeUnchecked(s, idx) == FALSE

\* Lines 53-55: no particle carries `index`.
NoSuchMolecule(s, idx) == Sum(NotEqual(s.body, idx)) = Len(s.body)

\* remove_molecule without lines 84-86: the ids stay as the mask copied them.
RebindBodySkipped(s, copied) == copied

\* remove_molecule freeing the smallest id instead of the largest.
RebindBodySmallest(s, copied) ==
    LET values == Range(s.body)
        smallest == CHOOSE v \in values : \A w \in values : v <= w
    IN  Select(s.body, NotEqual(s.body, smallest))

\* Lines 84-86: the array written into new_snapshot.particles.body. `copied`
\* is the body the attribute loop had put there (body[mask]); it is
\* overwritten by the ids of all particles but those of the largest id.
RebindBody(s, copied) == Select(s.body, NotEqual(s.body, Max(s.body)))

\* The outcome of remove_molecule(s, idx):
\*   raised   - "none", "IndexError" (line 56) or "ValueError" (numpy refusing
\*              the assignment of line 86, or max() of an empty array)
\*   snapshot - <<new_snapshot>> when it returns, <<>> when it raises
\*   arg      - the argument object after the call: the function writes only
\*              to new_snapshot, so it is s
remove_molecule(s, idx) ==
    LET mask == NotEqual(s.body, idx)
        num_particles == Sum(mask)
        failed(e) == [raised |-> e, snapshot |-> <<>>, arg |-> s]
    IN  IF NoSuchMolecule(s, idx) THEN failed("IndexError")
        ELSE IF s.body = <<>> THEN failed("ValueError")
        ELSE LET source == RebindBody(s, Select(s.body, mask))
             IN  IF ~CanAssign(num_particles, source) THEN failed("ValueError")
                 ELSE [raised |-> "none",
                       snapshot |-> <<[body |-> AssignAll(num_particles, source),
                                       attrs |-> Select(s.attrs, mask)]>>,
                       arg |-> s]

---------------------------------------------------------------------------
(* central_molecule.                                                       *)

\* int() of a float held as a count of halves: truncation towards zero.
IntOfHalves(h) == IF h >= 0 THEN h \div 2 ELSE -((-h) \div 2)

\* central_molecule with integer division at each step.
central_molecule_floored(dims, molecules) ==
    ((dims[1] \div 2) * dims[2] + (dims[2] \div 2)) * molecules

\* Line 107: int((x / 2 * y + y / 2) * cell_molecules). `/` is true division;
\* every intermediate value is a multiple of 1/2, held here exactly as its
\* count of halves (the floats are exact at these magnitudes).
central_molecule(dims, molecules) ==
    LET x == dims[1]
        y == dims[2]
        x_over_2 == x                     \* x / 2, in halves
        y_over_2 == y                     \* y / 2, in halves
        total == (x_over_2 * y + y_over_2) * molecules
    IN  IntOfHalves(total)

---------------------------------------------------------------------------
(* The argument checks and index arithmetic of the placement functions.    *)

\* Lines 136-139.
vertical_check(n) == IF n < 0 THEN "raise" ELSE IF n = 0 THEN "return" ELSE "loop"

\* Lines 174-177.
horizontal_check(n) == IF n < 0 THEN "raise" ELSE IF n = 0 THEN "return" ELSE "loop"

\* remove_vertical_cell without its check for a negative count.
cell_check_unsigned(n) == IF n = 0 THEN "return" ELSE "loop"

\* Lines 221-224.
cell_check(n) == IF n < 0 THEN "raise" ELSE IF n = 0 THEN "return" ELSE "loop"

\* remove_vertical starting 2 * num_mols below the centre.
vertical_start_doubled(c, n) == c - 2 * n

\* Line 141: the first index of range(center - 2 * num_mols // 2, center);
\* `*` and `//` associate to the left.
vertical_start(c, n) == c - ((2 * n) \div 2)

\* remove_horizontal without the minimum of 2.
horizontal_extent_unclamped(n) == (n \div 4) * 2

\* Line 181: extent = max(num_mols // 4 * 2, 2).
horizontal_extent(n) == IF (n \div 4) * 2 >= 2 THEN (n \div 4) * 2 ELSE 2

\* Line 186: index = center + column * y - count * 2.
horizontal_index(c, col, y, k) == c + col * y - k * 2

\* Line 227: index = center - num_cells // 2 * 2.
cell_index(c, n) == c - ((n \div 2) * 2)

---------------------------------------------------------------------------
(* The state after construction: the caller holds a snapshot, nothing has  *)
(* been called.                                                            *)

Init ==
    /\ original \in Snapshots
    /\ input = original
    /\ snapshot = original
    /\ op = "idle"
    /\ pc = "idle"
    /\ num_mols = 0
    /\ cell_dimensions = <<0, 0>>
    /\ cell_molecules = 0
    /\ center = 0
    /\ index = 0
    /\ count = 0
    /\ column = 0
    /\ raised = "none"
    /\ result = <<>>
    /\ before = original
    /\ calls = <<>>

\* The arguments a caller of central_molecule draws from.
Dimensions == (1..MaxDim) \X (1..MaxDim)

Molecules == 1..MaxCellMolecules

\* The lattices <<cell_dimensions, cell_molecules>> and the counts a caller of
\* a placement function draws from.
Lattices == {<<<<4, 5>>, 1>>, <<<<2, 2>>, 1>>, <<<<4, 1>>, 2>>}

Counts == ((-1)..MaxCount) \cup {40}

\* The indices a direct caller of remove_molecule tries on s: every id of s,
\* one below the smallest and one above the largest.
Indices(s) == (-1)..NumMolecules(s)

---------------------------------------------------------------------------
(* Direct calls.                                                           *)

\* The caller calls remove_molecule(s, i), s being its own snapshot on the
\* first call and the snapshot the previous call returned afterwards.
call_remove_molecule ==
    /\ op \in {"idle", "remove_molecule"}
    /\ pc \in {"idle", "returned"}
    /\ Len(calls) < MaxChain
    /\ \E i \in Indices(snapshot) :
        LET r == remove_molecule(snapshot, i)
        IN  /\ op' = "remove_molecule"
            /\ before' = snapshot
            /\ calls' = Append(calls, i)
            /\ input' = IF calls = <<>> THEN r.arg ELSE input
            /\ raised' = r.raised
            /\ result' = r.snapshot
            /\ IF r.raised = "none"
                 THEN snapshot' = r.snapshot[1] /\ pc' = "returned"
                 ELSE snapshot' = snapshot /\ pc' = "raised"
    /\ UNCHANGED <<original, num_mols, cell_dimensions, cell_molecules, center,
                   index, count, column>>

\* The caller calls central_molecule(dims, molecules).
call_central_molecule ==
    /\ pc = "idle"
    /\ \E dims \in Dimensions, molecules \in Molecules :
        /\ cell_dimensions' = dims
        /\ cell_molecules' = molecules
        /\ center' = central_molecule(dims, molecules)
    /\ op' = "central_molecule"
    /\ pc' = "returned"
    /\ UNCHANGED <<original, input, snapshot, num_mols, index, count, column,
                   raised, result, before, calls>>

---------------------------------------------------------------------------
(* One call of remove_molecule inside a placement function:                *)
(*     snapshot = remove_molecule(snapshot, idx)                           *)
(* An exception leaves the function; nothing is returned to the caller.    *)
(* Until the first call returns, the local `snapshot` is the caller's own  *)
(* object.                                                                 *)

Invoke(idx, next) ==
    LET r == remove_molecule(snapshot, idx)
    IN  /\ before' = snapshot
        /\ calls' = Append(calls, idx)
        /\ input' = IF calls = <<>> THEN r.arg ELSE input
        /\ raised' = r.raised
        /\ IF r.raised = "none"
             THEN snapshot' = r.snapshot[1] /\ pc' = next
             ELSE snapshot' = snapshot /\ pc' = "raised"
        /\ UNCHANGED <<original, op, num_mols, cell_dimensions, cell_molecules,
                       center, result>>

\* Entry of a placement function: the arguments are bound and the count is
\* checked (`check` is the function's check of its count, `first` the value
\* its `index` starts with).
Enter(name, n, dims, molecules, check, first, looppc) ==
    /\ pc = "idle"
    /\ op' = name
    /\ num_mols' = n
    /\ cell_dimensions' = dims
    /\ cell_molecules' = molecules
    /\ snapshot' = input
    /\ count' = 0
    /\ IF check = "raise"
         THEN /\ pc' = "raised"
              /\ raised' = "ValueError"
              /\ UNCHANGED <<center, index, column, result>>
         ELSE IF check = "return"
         THEN /\ pc' = "returned"
              /\ result' = <<input>>
              /\ UNCHANGED <<center, index, column, raised>>
         ELSE /\ pc' = looppc
              /\ center' = central_molecule(dims, molecules)
              /\ index' = first
              /\ column' = -horizontal_extent(n)
              /\ UNCHANGED <<raised, result>>
    /\ UNCHANGED <<original, input, before, calls>>

\* `return snapshot` after the loop.
Return ==
    /\ pc' = "returned"
    /\ result' = <<snapshot>>
    /\ UNCHANGED <<original, input, snapshot, op, num_mols, cell_dimensions,
                   cell_molecules, center, index, count, column, raised,
                   before, calls>>

---------------------------------------------------------------------------
(* remove_vertical.                                                        *)

call_remove_vertical ==
    \E n \in Counts, lattice \in Lattices :
        Enter("remove_vertical", n, lattice[1], lattice[2], vertical_check(n),
              vertical_start(central_molecule(lattice[1], lattice[2]), n),
              "vertical")

\* One iteration of `for index in range(..., center)`; `index` holds the
\* value the range yields next.
remove_vertical_body ==
    /\ op = "remove_vertical" /\ pc = "vertical"
    /\ index < center
    /\ Invoke(index, "vertical")
    /\ index' = index + 1
    /\ UNCHANGED <<count, column>>

remove_vertical_return ==
    /\ op = "remove_vertical" /\ pc = "vertical"
    /\ index >= center
    /\ Return

---------------------------------------------------------------------------
(* remove_horizontal.                                                      *)

call_remove_horizontal ==
    \E n \in Counts, lattice \in Lattices :
        Enter("remove_horizontal", n, lattice[1], lattice[2],
              horizontal_check(n), 0, "horizontal")

\* First half of an iteration of
\* `for count, column in enumerate(range(-extent, extent, 2))`: `index` is
\* computed and molecule `index` removed.
remove_horizontal_first ==
    /\ op = "remove_horizontal" /\ pc = "horizontal"
    /\ column < horizontal_extent(num_mols)
    /\ index' = horizontal_index(center, column, cell_dimensions[2], count)
    /\ Invoke(index', "horizontal_second")
    /\ UNCHANGED <<count, column>>

\* Second half: molecule `index + 2` is removed and the loop moves on.
remove_horizontal_second ==
    /\ op = "remove_horizontal" /\ pc = "horizontal_second"
    /\ Invoke(index + 2, "horizontal")
    /\ count' = count + 1
    /\ column' = column + 2
    /\ UNCHANGED index

remove_horizontal_return ==
    /\ op = "remove_horizontal" /\ pc = "horizontal"
    /\ column >= horizontal_extent(num_mols)
    /\ Return

---------------------------------------------------------------------------
(* remove_vertical_cell; `count` holds the loop variable `i`.              *)

call_remove_vertical_cell ==
    \E n \in Counts, lattice \in Lattices :
        Enter("remove_vertical_cell", n, lattice[1], lattice[2], cell_check(n),
              cell_index(central_molecule(lattice[1], lattice[2]), n), "cell")

\* First half of an iteration of `for i in range(num_cells)`.
remove_vertical_cell_first ==
    /\ op = "remove_vertical_cell" /\ pc = "cell"
    /\ count < num_mols
    /\ Invoke(IF count = 0 THEN index - 2 ELSE index - 1, "cell_second")
    /\ UNCHANGED <<index, count, column>>

\* Second half: molecule `index` is removed and the loop moves on.
remove_vertical_cell_second ==
    /\ op = "remove_vertical_cell" /\ pc = "cell_second"
    /\ Invoke(index, "cell")
    /\ count' = count + 1
    /\ UNCHANGED <<index, column>>

remove_vertical_cell_return ==
    /\ op = "remove_vertical_cell" /\ pc = "cell"
    /\ count >= num_mols
    /\ Return

---------------------------------------------------------------------------

Next ==
    \/ call_remove_molecule
    \/ call_central_molecule
    \/ call_remove_vertical
    \/ remove_vertical_body
    \/ remove_vertical_return
    \/ call_remove_horizontal
    \/ remove_horizontal_first
    \/ remove_horizontal_second
    \/ remove_horizontal_return
    \/ call_remove_vertical_cell
    \/ remove_vertical_cell_first
    \/ remove_vertical_cell_second
    \/ remove_vertical_cell_return

Spec == Init /\ [][Next]_vars

---------------------------------------------------------------------------
(* Properties.                                                             *)

Placement == {"remove_vertical", "remove_horizontal", "remove_vertical_cell"}

\* The index of the latest remove_molecule call.
LastIndex == calls[Len(calls)]

\* The latest remove_molecule call returned: `before` went in, `snapshot`
\* came out.
LastReturned == calls # <<>> /\ raised = "none"

\* The particles of `before` the latest call kept, as positions in `before`,
\* in order: particle Survivors[j] of `before` is particle j of the output.
Survivors ==
    Select([p \in 1..Len(before.body) |-> p], NotEqual(before.body, LastIndex))

\* C1: molecule-id contiguity is preserved by every removal. Starting from
\* ids {0..M-1}, after k remove_molecule calls that all returned (made
\* directly with any present id, or by a placement function), the ids of the
\* snapshot are exactly {0..M-1-k}.
C1_ContiguityPreserved ==
    raised = "none" =>
        MoleculeIds(snapshot) = 0..(NumMolecules(original) - 1 - Len(calls))

C1_Witness ==
    /\ op = "remove_molecule" /\ pc = "returned"
    /\ Len(calls) = 2
    /\ calls[1] < NumMolecules(original) - 1
    /\ calls[2] < NumMolecules(original) - 2

\* C2: a removal that names a molecule id with no particles ends in
\* IndexError (InvalidIndex), never in a snapshot; inside a placement function
\* the whole operation ends in IndexError, nothing is returned and the
\* caller's snapshot is unchanged.
C2_InvalidIndexPropagates ==
    /\ (calls # <<>> /\ LastIndex \notin MoleculeIds(before)) =>
            /\ pc = "raised" /\ raised = "IndexError"
            /\ result = <<>>
            /\ input = original
    /\ raised = "IndexError" =>
            /\ pc = "raised"
            /\ result = <<>>
            /\ input = original
            /\ LastIndex \notin MoleculeIds(before)

C2_Witness ==
    /\ op = "remove_horizontal" /\ raised = "IndexError"
    /\ Len(calls) > 1
    /\ snapshot # original
    /\ result = <<>>

\* C3: count conservation. For every snapshot s and every molecule id m
\* present in s, remove_molecule(s, m) returns a snapshot holding exactly the
\* particles of s whose id differs from m, in order, attributes unchanged; its
\* particle count is that of s minus the particles of molecule m.
C3_CountConservation ==
    (calls # <<>> /\ LastIndex \in MoleculeIds(before)) =>
        /\ raised = "none"
        /\ LET kept == Survivors
           IN  snapshot.attrs = [j \in 1..Len(kept) |-> before.attrs[kept[j]]]
        /\ Len(snapshot.body) = Len(snapshot.attrs)
        /\ Len(snapshot.body) =
              Len(before.body)
                - Cardinality({p \in 1..Len(before.body) : before.body[p] = LastIndex})

\* C4: remove_vertical removes an even number of molecules: for a count > 0
\* for which all removals succeed, the indices handed to remove_molecule are
\* anchor - 2*floor(count/2) .. anchor - 1, ascending.
C4_VerticalEven ==
    (op = "remove_vertical" /\ pc = "returned" /\ num_mols > 0) =>
        LET anchor == central_molecule(cell_dimensions, cell_molecules)
            even == 2 * (num_mols \div 2)
        IN  calls = [k \in 1..even |-> anchor - even + k - 1]

\* C5: multiple-of-4 law. For a count > 0 for which all removals succeed,
\* remove_horizontal removes max(4*floor(count/4), 4) molecules, as the pairs
\* (index, index + 2), index = anchor + column*y - 2*k on iteration k over the
\* columns -extent, -extent + 2, ..., extent - 2.
C5_HorizontalMultipleOfFour ==
    (op = "remove_horizontal" /\ pc = "returned" /\ num_mols > 0) =>
        LET anchor == central_molecule(cell_dimensions, cell_molecules)
            y == cell_dimensions[2]
            four == 4 * (num_mols \div 4)
            total == IF four >= 4 THEN four ELSE 4
            extent == total \div 2
        IN  /\ Len(calls) = total
            /\ \A k \in 0..(extent - 1) :
                  /\ calls[2 * k + 1] = anchor + (2 * k - extent) * y - 2 * k
                  /\ calls[2 * k + 2] = calls[2 * k + 1] + 2
            /\ NumMolecules(result[1]) = NumMolecules(original) - total

C5_Witness ==
    /\ op = "remove_horizontal" /\ pc = "returned"
    /\ num_mols = 8
    /\ Len(calls) = 8

\* C6: end-to-end scenario. On 20 molecules of 3 particles (ids 0..19),
\* remove_vertical(s, 4, (4, 5), 1) raises nothing and returns 48 particles in
\* 16 molecules with ids exactly {0..15}.
C6_EndToEnd ==
    (/\ original = Crystal(20, 3)
     /\ op = "remove_vertical" /\ num_mols = 4
     /\ cell_dimensions = <<4, 5>> /\ cell_molecules = 1) =>
        /\ raised = "none"
        /\ Len(calls) <= 4
        /\ pc = "returned" =>
              /\ Len(calls) = 4
              /\ Len(result[1].body) = 48
              /\ Len(result[1].attrs) = 48
              /\ MoleculeIds(result[1]) = 0..15

C6_Witness ==
    /\ original = Crystal(20, 3)
    /\ op = "remove_vertical" /\ num_mols = 4
    /\ cell_dimensions = <<4, 5>> /\ cell_molecules = 1
    /\ pc = "returned"
    /\ Len(result[1].body) = 48

\* The exact value (x/2*y + y/2)*m is (x*y + y)*m / 2; c is its floor when
\* c <= (x*y + y)*m / 2 < c + 1.
IsFloorOfExact(c, dims, molecules) ==
    LET twice == (dims[1] * dims[2] + dims[2]) * molecules
    IN  2 * c <= twice /\ twice < 2 * c + 2

\* C7, as claimed: central_molecule((x, y), m) is the exact value
\* (x/2*y + y/2)*m floored once at the end; central_molecule((5,4), 2) = 14 and
\* central_molecule((3,3), 1) = 6.
C7_FlooredOnceClaimed ==
    (op = "central_molecule" /\ pc = "returned") =>
        /\ IsFloorOfExact(center, cell_dimensions, cell_molecules)
        /\ (cell_dimensions = <<5, 4>> /\ cell_molecules = 2) => center = 14
        /\ (cell_dimensions = <<3, 3>> /\ cell_molecules = 1) => center = 6

\* C7, as amended: central_molecule((x, y), m) is the exact value
\* (x/2*y + y/2)*m floored once at the end; central_molecule((5,4), 2) = 24 and
\* central_molecule((3,3), 1) = 6.
C7_FlooredOnce ==
    (op = "central_molecule" /\ pc = "returned") =>
        /\ IsFloorOfExact(center, cell_dimensions, cell_molecules)
        /\ (cell_dimensions = <<5, 4>> /\ cell_molecules = 2) => center = 24
        /\ (cell_dimensions = <<3, 3>> /\ cell_molecules = 1) => center = 6

C7_Witness ==
    /\ op = "central_molecule" /\ pc = "returned"
    /\ cell_dimensions = <<5, 4>> /\ cell_molecules = 2
    /\ center = 24

\* C8: count validation precedes any removal. In the three placement
\* functions a count <= 0 never leads to a remove_molecule call; a negative
\* count ends in ValueError (InvalidArgument) with the input unchanged, a count
\* of 0 returns the input snapshot itself.
C8_CountValidatedFirst ==
    (op \in Placement /\ num_mols <= 0) =>
        /\ calls = <<>>
        /\ input = original
        /\ num_mols < 0 => (pc = "raised" /\ raised = "ValueError" /\ result = <<>>)
        /\ num_mols = 0 => (pc = "returned" /\ raised = "none" /\ result = <<original>>)

C8_Witness ==
    /\ op = "remove_vertical_cell" /\ num_mols < 0
    /\ pc = "raised" /\ raised = "ValueError"

\* C9, as claimed: in remove_molecule(s, m) with m present, every surviving
\* particle whose id in s was not the maximum id of s has the same id in the
\* output, for every m.
C9_NonMaximumKeepsId ==
    LastReturned =>
        LET kept == Survivors
            largest == Max(before.body)
        IN  \A j \in 1..Len(snapshot.body) :
                before.body[kept[j]] # largest =>
                    snapshot.body[j] = before.body[kept[j]]

\* C9, as amended: when m is the maximum id of s, every surviving particle
\* has the same id in the output as in s.
C9_MaximumRemovedKeepsIds ==
    (LastReturned /\ LastIndex = Max(before.body)) =>
        LET kept == Survivors
        IN  /\ Len(snapshot.body) = Len(kept)
            /\ \A j \in 1..Len(snapshot.body) :
                  snapshot.body[j] = before.body[kept[j]]

C9_Witness ==
    /\ LastReturned
    /\ LastIndex = Max(before.body)
    /\ NumMolecules(snapshot) >= 2

\* C10: molecules stay intact across a removal. Whenever remove_molecule(s, m)
\* returns, two surviving particles have the same id in the output if and
\* only if they had the same id in s.
C10_MoleculesIntact ==
    LastReturned =>
        LET kept == Survivors
        IN  \A j, k \in 1..Len(snapshot.body) :
                (snapshot.body[j] = snapshot.body[k])
                    <=> (before.body[kept[j]] = before.body[kept[k]])

============================================================================
